---- MODULE Spec2Model ----
(***************************************************************************)
(* Model of agentcom's session negotiation: the capability registry        *)
(* (registry.py, decorators/capability_decorator.py), the agent            *)
(* configuration (config.py) and the POST /session handler                 *)
(* (endpoints/session_endpoint.py, models/session.py).                     *)
(*                                                                         *)
(* Python values are tagged records: None, int, str, list, dict.  A JSON   *)
(* field the client left out of the body is Omitted; pydantic's Field      *)
(* defaults replace it when the body is parsed (SessionRequest).           *)
(* Capability names and paths are sequences of one-character strings, so   *)
(* that str.strip and str.replace are computed, not assumed.               *)
(***************************************************************************)
EXTENDS Integers, Sequences, FiniteSets, TLC

\* ------------------------------------------------------------------ bounds
MaxReg == 2
MaxWanted == 2

\* ----------------------------------------------------------- Python values
None == [t |-> "None"]
Omitted == [t |-> "omitted"]
PyInt(n) == [t |-> "int", v |-> n]
PyStr(s) == [t |-> "str", v |-> s]
Chars(cs) == [t |-> "chars", v |-> cs]
PyList(xs) == [t |-> "list", v |-> xs]
PyDict(d) == [t |-> "dict", v |-> d]
EmptyDict == PyDict(<<>>)

\* bool(x) of a Python value
Truthy(x) ==
    CASE x.t = "None" -> FALSE
      [] x.t = "int" -> x.v # 0
      [] x.t = "str" -> x.v # ""
      [] x.t = "chars" -> Len(x.v) > 0
      [] x.t = "list" -> Len(x.v) > 0
      [] x.t = "dict" -> DOMAIN x.v # {}
      [] OTHER -> TRUE

\* x or y
Or(x, y) == IF Truthy(x) THEN x ELSE y

\* d.get(key), d a dict
Get(d, key) == IF key \in DOMAIN d.v THEN d.v[key] ELSE None

\* r.get(key, default), r a descriptor (a record of the model)
GetOr(r, key, default) == IF key \in DOMAIN r THEN r[key] ELSE default

\* --------------------------------------------------------- str operations
RECURSIVE lstrip(_, _)
lstrip(cs, c) ==
    IF cs # <<>> /\ Head(cs) = c THEN lstrip(Tail(cs), c) ELSE cs

RECURSIVE rstrip(_, _)
rstrip(cs, c) ==
    IF cs # <<>> /\ cs[Len(cs)] = c
    THEN rstrip(SubSeq(cs, 1, Len(cs) - 1), c)
    ELSE cs

\* cs.strip(c)
strip(cs, c) == rstrip(lstrip(cs, c), c)

\* cs.replace(old, new), old a single character
replace(cs, old, new) ==
    [i \in 1..Len(cs) |-> IF cs[i] = old THEN new ELSE cs[i]]

\* path.strip("/").replace("/", "_")
PathName(path) == replace(strip(path, "/"), "/", "_")

\* --------------------------------------------------------------- config.py
AgentConfig == [agent_id |-> "agent://unknown",
                version |-> "0.0.0",
                supported_transports |-> <<"http-json">>]

NotRegistered == [t |-> "NotRegistered"]

VARIABLES
    REGISTERED_ENDPOINTS,   \* registry.py: the global list of descriptors
    _agent_config,          \* config.py: the object the global names
    config,                 \* the object register_session_endpoint captured
    aliased,                \* whether config is the object _agent_config names
    request,                \* the body the /session handler is answering
    response,               \* what the handler returned or raised
    lookups                 \* the _find_capability calls the handler made

vars == <<REGISTERED_ENDPOINTS, _agent_config, config, aliased, request, response,
          lookups>>

NoRequest == [t |-> "NoRequest"]
NoResponse == [t |-> "NoResponse"]

\* ------------------------------------------- decorators/capability_decorator.py
\* The descriptor @capability(path, name=name, cost=cost) appends.
Descriptor(path, name, cost) ==
    LET default_name ==
            IF ~Truthy(name) /\ Truthy(path)
            THEN Or(Chars(PathName(path.v)), path)
            ELSE None
    IN [t |-> "descriptor",
        path |-> path,
        name |-> Or(name, default_name),
        cost |-> Or(cost, EmptyDict)]

\* ---------------------------------------------- endpoints/session_endpoint.py
\* The payload _generate_session_token encodes (timestamps left out: the
\* expiry is iat + timeout_seconds).
_generate_session_token(session_id, timeout_seconds) ==
    [t |-> "token", session_id |-> session_id, ttl |-> timeout_seconds]

_match_version(required, available) ==
    IF ~Truthy(required) THEN TRUE ELSE TRUE

MatchesName(cap, name) ==
    \/ cap.name = name
    \/ Chars(PathName(cap.path.v)) = name

\* _find_capability that keeps looking after a match: the last one wins
_find_capability_last_match(name, registry) ==
    LET hits == {i \in 1..Len(registry) : MatchesName(registry[i], name)}
    IN IF hits = {}
       THEN None
       ELSE registry[CHOOSE i \in hits : \A j \in hits : i >= j]

_find_capability(name, registry) ==
    LET hits == {i \in 1..Len(registry) : MatchesName(registry[i], name)}
    IN IF hits = {}
       THEN None
       ELSE registry[CHOOSE i \in hits : \A j \in hits : i <= j]

RejectedCapability(name, reason, supported_versions) ==
    [t |-> "RejectedCapability",
     name |-> name, reason |-> reason, supported_versions |-> supported_versions]

AcceptedCapability(name, version, action_schema, estimated_cost, latency_p99_ms) ==
    [t |-> "AcceptedCapability",
     name |-> name, version |-> version, action_schema |-> action_schema,
     estimated_cost |-> estimated_cost, latency_p99_ms |-> latency_p99_ms]

\* max_latency < 500 is defined for numbers; str, list and dict raise TypeError
Orderable(x) == x.t = "int"

LatencyViolation(wanted) ==
    LET max_latency == Get(Or(wanted.constraints, EmptyDict), "max_latency_ms")
    IN Truthy(max_latency) /\ Orderable(max_latency) /\ max_latency.v < 500

\* _negotiate_capability with the latency check moved before the lookup check
_negotiate_capability_latency_first(wanted, registered) ==
    IF LatencyViolation(wanted)
    THEN [accepted |-> None,
          rejected |-> RejectedCapability(wanted.name,
                           "latency_constraint_violation", None),
          raised |-> None]
    ELSE IF ~Truthy(registered)
    THEN [accepted |-> None,
          rejected |-> RejectedCapability(wanted.name, "capability_not_found", None),
          raised |-> None]
    ELSE [accepted |-> AcceptedCapability(wanted.name,
                           GetOr(registered, "version", PyStr("1.0.0")),
                           registered.path, registered.cost, 850),
          rejected |-> None,
          raised |-> None]

\* _negotiate_capability with a latency rejection that is built but not returned
_negotiate_capability_fall_through(wanted, registered) ==
    IF ~Truthy(registered)
    THEN [accepted |-> None,
          rejected |-> RejectedCapability(wanted.name, "capability_not_found", None),
          raised |-> None]
    ELSE [accepted |-> AcceptedCapability(wanted.name,
                           GetOr(registered, "version", PyStr("1.0.0")),
                           registered.path, registered.cost, 850),
          rejected |-> IF LatencyViolation(wanted)
                       THEN RejectedCapability(wanted.name,
                                "latency_constraint_violation", None)
                       ELSE None,
          raised |-> None]

\* (accepted, rejected), or the exception the call raises
_negotiate_capability(wanted, registered) ==
    IF ~Truthy(registered)
    THEN [accepted |-> None,
          rejected |-> RejectedCapability(wanted.name, "capability_not_found", None),
          raised |-> None]
    ELSE IF Truthy(wanted.version)
            /\ ~_match_version(wanted.version, GetOr(registered, "version", PyStr("1.0.0")))
    THEN [accepted |-> None,
          rejected |-> RejectedCapability(wanted.name, "unsupported_version",
                                          PyList(<<"1.0.0", "1.1.0">>)),
          raised |-> None]
    ELSE LET constraints == Or(wanted.constraints, EmptyDict)
             max_latency == Get(constraints, "max_latency_ms")
         IN IF Truthy(max_latency) /\ ~Orderable(max_latency)
            THEN [accepted |-> None, rejected |-> None,
                  raised |-> PyStr("TypeError")]
            ELSE IF Truthy(max_latency) /\ max_latency.v < 500
            THEN [accepted |-> None,
                  rejected |-> RejectedCapability(wanted.name,
                                   "latency_constraint_violation", None),
                  raised |-> None]
            ELSE [accepted |-> AcceptedCapability(wanted.name,
                                   GetOr(registered, "version", PyStr("1.0.0")),
                                   registered.path, registered.cost, 850),
                  rejected |-> None,
                  raised |-> None]

\* ------------------------------------------------------- models/session.py
\* pydantic's parse of the request body: Field defaults for what is left out
SessionPreferences(prefs) ==
    IF prefs = Omitted
    THEN [transport |-> PyList(<<"http-json">>),
          retry_strategy |-> PyStr("exponential"),
          max_retries |-> PyInt(3)]
    ELSE [transport |-> IF prefs.transport = Omitted
                        THEN PyList(<<"http-json">>) ELSE prefs.transport,
          retry_strategy |-> IF prefs.retry_strategy = Omitted
                             THEN PyStr("exponential") ELSE prefs.retry_strategy,
          max_retries |-> IF prefs.max_retries = Omitted
                          THEN PyInt(3) ELSE prefs.max_retries]

SessionRequest(body) ==
    [session_id |-> body.session_id,
     participants |-> body.participants,
     wanted_capabilities |-> body.wanted_capabilities,
     session_preferences |-> SessionPreferences(body.session_preferences),
     timeout_seconds |-> IF body.timeout_seconds = Omitted
                         THEN PyInt(180) ELSE body.timeout_seconds]

\* ------------------------------------------ session_endpoint, step by step
\* The loop over request.wanted_capabilities: the two lists after the first
\* n wanted capabilities, or the exception that ended the loop.
RECURSIVE NegotiateAll(_, _, _)
NegotiateAll(wanted_capabilities, registry, n) ==
    IF n = 0
    THEN [accepted_caps |-> <<>>, rejected_caps |-> <<>>, raised |-> None]
    ELSE LET before == NegotiateAll(wanted_capabilities, registry, n - 1)
             wanted_cap == wanted_capabilities[n]
             registered_cap == _find_capability(wanted_cap.name, registry)
             out == _negotiate_capability(wanted_cap, registered_cap)
         IN IF Truthy(before.raised)
            THEN before
            ELSE IF Truthy(out.raised)
            THEN [before EXCEPT !.raised = out.raised]
            ELSE [accepted_caps |->
                      IF Truthy(out.accepted)
                      THEN Append(before.accepted_caps, out.accepted)
                      ELSE before.accepted_caps,
                  rejected_caps |->
                      IF Truthy(out.rejected)
                      THEN Append(before.rejected_caps, out.rejected)
                      ELSE before.rejected_caps,
                  raised |-> None]

\* DetermineStatus with the second test on the wrong list
DetermineStatus_partial_on_rejected(accepted_caps, rejected_caps, wanted_capabilities) ==
    IF Len(accepted_caps) = Len(wanted_capabilities) /\ rejected_caps = <<>>
    THEN "accepted"
    ELSE IF rejected_caps # <<>>
    THEN "partial"
    ELSE "rejected"

\* DetermineStatus that takes "accepted" to need an accepted capability
DetermineStatus_needs_accepted(accepted_caps, rejected_caps, wanted_capabilities) ==
    IF accepted_caps # <<>> /\ rejected_caps = <<>>
    THEN "accepted"
    ELSE IF accepted_caps # <<>>
    THEN "partial"
    ELSE "rejected"

DetermineStatus(accepted_caps, rejected_caps, wanted_capabilities) ==
    IF Len(accepted_caps) = Len(wanted_capabilities) /\ rejected_caps = <<>>
    THEN "accepted"
    ELSE IF accepted_caps # <<>>
    THEN "partial"
    ELSE "rejected"

\* SelectTransport without the break: the last supported preference wins
SelectTransport_no_break(transport, supported_transports) ==
    LET prefs == Or(transport, PyList(<<"http-json">>)).v
        hits == {i \in 1..Len(prefs) :
                    \E k \in 1..Len(supported_transports) :
                        supported_transports[k] = prefs[i]}
    IN IF hits = {}
       THEN "http-json"
       ELSE prefs[CHOOSE i \in hits : \A j \in hits : i >= j]

\* the first preference the supported list holds, else the default
SelectTransport(transport, supported_transports) ==
    LET prefs == Or(transport, PyList(<<"http-json">>)).v
        hits == {i \in 1..Len(prefs) :
                    \E k \in 1..Len(supported_transports) :
                        supported_transports[k] = prefs[i]}
    IN IF hits = {}
       THEN "http-json"
       ELSE prefs[CHOOSE i \in hits : \A j \in hits : i <= j]

\* the handler's local supported_transports
SupportedTransports == <<"http-json", "grpc", "nats">>

Min(a, b) == IF a <= b THEN a ELSE b

NegotiateTimeout(timeout_seconds) ==
    Min(Or(timeout_seconds, PyInt(180)).v, 180)

NegotiatedSession(req, negotiated_timeout, selected_transport) ==
    [timeout_seconds |-> negotiated_timeout,
     transport |-> selected_transport,
     retry_strategy |-> Or(req.session_preferences.retry_strategy,
                           PyStr("exponential")).v,
     max_retries |-> Or(req.session_preferences.max_retries, PyInt(3)).v]

SessionResponse(req, status, lists, negotiated, session_token) ==
    [kind |-> "SessionResponse",
     session_id |-> req.session_id,
     status |-> status,
     accepted_capabilities |-> lists.accepted_caps,
     rejected_capabilities |-> lists.rejected_caps,
     negotiated_session |-> negotiated,
     session_token |-> session_token,
     error |-> IF status # "rejected"
               THEN None ELSE PyStr("No compatible capabilities found")]

\* Handle with the participant check after the negotiation loop
Handle_negotiate_first(cfg, registry, body) ==
    LET req == SessionRequest(body)
        lists == NegotiateAll(req.wanted_capabilities, registry,
                              Len(req.wanted_capabilities))
        status == DetermineStatus(lists.accepted_caps, lists.rejected_caps,
                                  req.wanted_capabilities)
        selected_transport ==
            SelectTransport(req.session_preferences.transport, SupportedTransports)
        negotiated_timeout == NegotiateTimeout(req.timeout_seconds)
        negotiated == NegotiatedSession(req, negotiated_timeout, selected_transport)
        session_token == _generate_session_token(req.session_id, negotiated_timeout)
    IN IF Truthy(lists.raised)
       THEN [kind |-> lists.raised.v]
       ELSE IF \A k \in 1..Len(req.participants) : req.participants[k] # cfg.agent_id
       THEN [kind |-> "HTTPException", status_code |-> 400]
       ELSE SessionResponse(req, status, lists, negotiated, session_token)

\* What the handler returns for a body, or the exception it raises.
Handle(cfg, registry, body) ==
    LET req == SessionRequest(body)
        lists == NegotiateAll(req.wanted_capabilities, registry,
                              Len(req.wanted_capabilities))
        status == DetermineStatus(lists.accepted_caps, lists.rejected_caps,
                                  req.wanted_capabilities)
        selected_transport ==
            SelectTransport(req.session_preferences.transport, SupportedTransports)
        negotiated_timeout == NegotiateTimeout(req.timeout_seconds)
        negotiated == NegotiatedSession(req, negotiated_timeout, selected_transport)
        session_token == _generate_session_token(req.session_id, negotiated_timeout)
    IN IF \A k \in 1..Len(req.participants) : req.participants[k] # cfg.agent_id
       THEN [kind |-> "HTTPException", status_code |-> 400]
       ELSE IF Truthy(lists.raised)
       THEN [kind |-> lists.raised.v]
       ELSE SessionResponse(req, status, lists, negotiated, session_token)

\* How many times the loop called _find_capability before the handler
\* returned or raised: none when the participant check raises, and up to
\* the wanted capability whose negotiation raises otherwise.
Lookups(cfg, registry, body) ==
    LET req == SessionRequest(body)
        wanted == req.wanted_capabilities
        raising == {n \in 1..Len(wanted) : Truthy(NegotiateAll(wanted, registry, n).raised)}
    IN IF \A k \in 1..Len(req.participants) : req.participants[k] # cfg.agent_id
       THEN 0
       ELSE IF raising = {}
       THEN Len(wanted)
       ELSE CHOOSE n \in raising : \A m \in raising : n <= m

\* ------------------------------------------------------------------ inputs
\* @capability(path, name=...) calls the application makes
DecoratorArgs ==
    { <<Chars(<<"/", "a">>), None>>,
      <<Chars(<<"/", "b", "/", "c", "/">>), Chars(<<"a">>)>> }

NameA == Chars(<<"a">>)
NameBC == Chars(<<"b", "_", "c">>)
NameZZ == Chars(<<"z", "z">>)

Wanted(name, version, constraints) ==
    [name |-> name, version |-> version, constraints |-> constraints]

Latency(x) == PyDict([max_latency_ms |-> x])

WantedCapabilities ==
    { Wanted(NameA, None, None),
      Wanted(NameA, PyStr(">=1.0,<2.0"), PyDict([max_cost |-> PyInt(1)])),
      Wanted(NameA, PyStr(">=2.0"), None),
      Wanted(NameA, PyStr("not-a-version"), None),
      Wanted(NameA, None, Latency(PyInt(0))),
      Wanted(NameA, None, Latency(PyInt(499))),
      Wanted(NameA, None, Latency(PyInt(600))),
      Wanted(NameA, None, PyDict([max_latency_ms |-> PyInt(900),
                                  max_cost |-> PyInt(1)])),
      Wanted(NameA, None, Latency(PyStr("fast"))),
      Wanted(NameBC, None, None),
      Wanted(NameZZ, PyStr(">=2.0"), Latency(PyInt(499))) }

RECURSIVE SeqsUpTo(_, _)
SeqsUpTo(S, n) ==
    IF n = 0
    THEN {<<>>}
    ELSE LET shorter == SeqsUpTo(S, n - 1)
         IN shorter \cup {Append(q, x) : q \in shorter, x \in S}

Body(participants, wanted_capabilities, session_preferences, timeout_seconds) ==
    [session_id |-> "s1",
     participants |-> participants,
     wanted_capabilities |-> wanted_capabilities,
     session_preferences |-> session_preferences,
     timeout_seconds |-> timeout_seconds]

Preferences(transport, retry_strategy, max_retries) ==
    [transport |-> transport, retry_strategy |-> retry_strategy,
     max_retries |-> max_retries]

Transports ==
    { Omitted, PyList(<<>>), PyList(<<"grpc", "http-json">>),
      PyList(<<"ws", "nats">>), PyList(<<"ws">>) }

Timeouts == { Omitted, None, PyInt(0), PyInt(60), PyInt(180), PyInt(300), PyInt(-5) }

RetryStrategies == { Omitted, PyStr(""), PyStr("linear") }

MaxRetries == { Omitted, None, PyInt(0), PyInt(5) }

ParticipantLists ==
    { <<>>, <<"agent://a">>, <<"agent://b", "agent://unknown">> }

\* Requests that vary the wanted capabilities, and requests that vary the
\* session parameters.
CapabilityBodies ==
    { Body(<<"agent://a", "agent://unknown">>, w, Omitted, Omitted) :
        w \in SeqsUpTo(WantedCapabilities, MaxWanted) }

ParameterBodies ==
    { Body(p, w, params[1], params[2]) :
        p \in ParticipantLists,
        w \in { <<>>, <<Wanted(NameA, None, None)>>, <<Wanted(NameZZ, None, None)>>,
                 <<Wanted(NameA, None, Latency(PyStr("fast")))>> },
        params \in { <<Omitted, timeout>> : timeout \in Timeouts }
                   \cup { <<Preferences(tr, Omitted, Omitted), Omitted>> :
                            tr \in Transports }
                   \cup { <<Preferences(Omitted, rs, mr), Omitted>> :
                            rs \in RetryStrategies, mr \in MaxRetries } }

Bodies == CapabilityBodies \cup ParameterBodies

\* ----------------------------------------------------------------- actions
Init ==
    /\ REGISTERED_ENDPOINTS = <<>>
    /\ _agent_config = AgentConfig
    /\ config = NotRegistered
    /\ aliased = FALSE
    /\ request = NoRequest
    /\ response = NoResponse
    /\ lookups = 0

\* The handler has no await: nothing runs between its first line and its
\* return.  request and response are its locals; they are gone once the
\* response is sent (Return), and every other operation runs after that.
Idle == response = NoResponse

\* @capability(path, name=name): REGISTERED_ENDPOINTS.append({...})
capability(path, name) ==
    /\ Idle
    /\ Len(REGISTERED_ENDPOINTS) < MaxReg
    /\ REGISTERED_ENDPOINTS' = Append(REGISTERED_ENDPOINTS, Descriptor(path, name, None))
    /\ UNCHANGED <<_agent_config, config, aliased, request, response, lookups>>

\* set_agent_config mutates the object the global names, in place
set_agent_config(agent_id, version, supported_transports) ==
    /\ Idle
    /\ _agent_config' =
         [agent_id |-> IF agent_id # None THEN agent_id.v ELSE _agent_config.agent_id,
          version |-> IF version # None THEN version.v ELSE _agent_config.version,
          supported_transports |->
              IF supported_transports # None
              THEN supported_transports.v
              ELSE _agent_config.supported_transports]
    /\ config' = IF aliased THEN _agent_config' ELSE config
    /\ UNCHANGED <<REGISTERED_ENDPOINTS, aliased, request, response, lookups>>

\* reset_agent_config binds the global to a new object
reset_agent_config ==
    /\ Idle
    /\ _agent_config' = AgentConfig
    /\ aliased' = FALSE
    /\ UNCHANGED <<REGISTERED_ENDPOINTS, config, request, response, lookups>>

\* register_session_endpoint(app): config = get_agent_config(), and the
\* route is added.  The router dispatches to the first route added for
\* POST /session, so the call is modelled once per application.
register_session_endpoint ==
    /\ Idle
    /\ config = NotRegistered
    /\ config' = _agent_config
    /\ aliased' = TRUE
    /\ UNCHANGED <<REGISTERED_ENDPOINTS, _agent_config, request, response, lookups>>

\* POST /session with this body
session_endpoint(body) ==
    /\ Idle
    /\ config # NotRegistered
    /\ request' = body
    /\ response' = Handle(config, REGISTERED_ENDPOINTS, body)
    /\ lookups' = Lookups(config, REGISTERED_ENDPOINTS, body)
    /\ UNCHANGED <<REGISTERED_ENDPOINTS, _agent_config, config, aliased>>

\* the response (or the error) is sent and the request's objects discarded
Return ==
    /\ ~Idle
    /\ request' = NoRequest
    /\ response' = NoResponse
    /\ lookups' = 0
    /\ UNCHANGED <<REGISTERED_ENDPOINTS, _agent_config, config, aliased>>

Register == \E args \in DecoratorArgs : capability(args[1], args[2])

Configure ==
    \E agent_id \in {None, PyStr("agent://a")},
       supported_transports \in {None, PyList(<<"http-json", "nats">>)} :
        set_agent_config(agent_id, None, supported_transports)

Session == \E body \in Bodies : session_endpoint(body)

Next ==
    \/ Register
    \/ Configure
    \/ reset_agent_config
    \/ register_session_endpoint
    \/ Session
    \/ Return

Spec == Init /\ [][Next]_vars

\* ================================================================= claims
\* What a response is compared with: the body it answers and the registry
\* it was negotiated against (both unchanged until Return).
IsSessionResponse == response # NoResponse /\ response.kind = "SessionResponse"

wanted_caps == request.wanted_capabilities
accepted_caps == response.accepted_capabilities
rejected_caps == response.rejected_capabilities

TimesRequested(name) == Cardinality({i \in DOMAIN wanted_caps : wanted_caps[i].name = name})
TimesAccepted(name) == Cardinality({k \in DOMAIN accepted_caps : accepted_caps[k].name = name})
TimesRejected(name) == Cardinality({k \in DOMAIN rejected_caps : rejected_caps[k].name = name})
TimesRejectedFor(name, reason) ==
    Cardinality({k \in DOMAIN rejected_caps :
                    rejected_caps[k].name = name /\ rejected_caps[k].reason = reason})

\* some descriptor of the catalog answers to the name
InCatalog(name) ==
    \E k \in DOMAIN REGISTERED_ENDPOINTS :
        \/ REGISTERED_ENDPOINTS[k].name = name
        \/ Chars(PathName(REGISTERED_ENDPOINTS[k].path.v)) = name

\* the wanted capability is the only one of its name in the request, so the
\* entry of its name in the response is its outcome
Alone(i) == TimesRequested(wanted_caps[i].name) = 1

\* C1: for an admissible request with a non-empty wanted list, the status
\* is "accepted" iff every wanted capability was accepted and none
\* rejected, "partial" iff at least one was accepted and at least one
\* rejected, "rejected" iff none was accepted; it is one of the three.
C1_StatusAggregation ==
    (IsSessionResponse /\ wanted_caps # <<>>) =>
        /\ response.status \in {"accepted", "partial", "rejected"}
        /\ response.status = "accepted"
             <=> (Len(accepted_caps) = Len(wanted_caps) /\ Len(rejected_caps) = 0)
        /\ response.status = "partial"
             <=> (Len(accepted_caps) >= 1 /\ Len(rejected_caps) >= 1)
        /\ response.status = "rejected" <=> Len(accepted_caps) = 0

C1_Witness ==
    /\ IsSessionResponse
    /\ Len(wanted_caps) = 2
    /\ Len(accepted_caps) = 1
    /\ Len(rejected_caps) = 1
    /\ response.status = "partial"

\* C2: a response whose status is "rejected" carries no session_token and
\* no negotiated_session.
C2_NoTokenWhenRejected ==
    (IsSessionResponse /\ response.status = "rejected") =>
        /\ response.session_token = None
        /\ response.negotiated_session = None

C4_NotFound ==
    IsSessionResponse =>
        \A i \in DOMAIN wanted_caps :
            LET name == wanted_caps[i].name
            IN ~InCatalog(name) =>
                 /\ TimesAccepted(name) = 0
                 /\ TimesRejectedFor(name, "capability_not_found") = TimesRequested(name)

\* an unknown name asked for with a version and a latency bound below 500
C4_Witness ==
    /\ IsSessionResponse
    /\ REGISTERED_ENDPOINTS # <<>>
    /\ \E i \in DOMAIN wanted_caps :
         /\ ~InCatalog(wanted_caps[i].name)
         /\ wanted_caps[i].version # None
         /\ wanted_caps[i].constraints # None
         /\ Get(wanted_caps[i].constraints, "max_latency_ms") = PyInt(499)
         /\ TimesRejectedFor(wanted_caps[i].name, "capability_not_found") = 1

\* ---- the version ordering the specification describes (section 4.2)
\* The reading of the version and constraint strings the requests use.
ParseVersion(s) ==
    CASE s = "1.0.0" -> <<1, 0, 0>>
      [] s = "1.0" -> <<1, 0, 0>>
      [] s = "2.0" -> <<2, 0, 0>>

Comparison(op, version) == [op |-> op, version |-> ParseVersion(version)]

ParseConstraint(s) ==
    CASE s = ">=1.0,<2.0" ->
            [ok |-> TRUE, all |-> <<Comparison(">=", "1.0"), Comparison("<", "2.0")>>]
      [] s = ">=2.0" -> [ok |-> TRUE, all |-> <<Comparison(">=", "2.0")>>]
      [] OTHER -> [ok |-> FALSE, all |-> <<>>]

\* a < b, major.minor.patch compared as numbers
VersionLess(a, b) ==
    \/ a[1] < b[1]
    \/ a[1] = b[1] /\ a[2] < b[2]
    \/ a[1] = b[1] /\ a[2] = b[2] /\ a[3] < b[3]

Holds(op, a, b) ==
    CASE op = ">=" -> ~VersionLess(a, b)
      [] op = "<=" -> ~VersionLess(b, a)
      [] op = ">" -> VersionLess(b, a)
      [] op = "<" -> VersionLess(a, b)
      [] op = "=" -> a = b

Satisfies(required, available) ==
    \/ required = None
    \/ LET c == ParseConstraint(required.v)
       IN c.ok /\ \A k \in DOMAIN c.all :
                     Holds(c.all[k].op, ParseVersion(available), c.all[k].version)

WellFormedVersion(required) == required = None \/ ParseConstraint(required.v).ok

MaxLatency(wanted) ==
    IF wanted.constraints = None THEN None
    ELSE Get(wanted.constraints, "max_latency_ms")

\* C5: the version matcher is true for an absent constraint and, for a
\* constraint, true iff the available version satisfies every comparison;
\* a wanted capability whose constraint the registered version (1.0.0)
\* does not satisfy is rejected with reason "unsupported_version".
C5_VersionMatcher ==
    IsSessionResponse =>
        \A i \in DOMAIN wanted_caps :
            LET w == wanted_caps[i]
                sat == Satisfies(w.version, "1.0.0")
            IN (InCatalog(w.name) /\ Alone(i) /\ WellFormedVersion(w.version)) =>
                 /\ _match_version(w.version, PyStr("1.0.0")) = sat
                 /\ ~sat => TimesRejectedFor(w.name, "unsupported_version") = 1

\* C6: a registered capability that passes the version check is accepted
\* when 850 <= max_latency_ms and rejected with reason
\* "latency_constraint_violation" otherwise, for every integer
\* max_latency_ms; the other constraint keys do not change the outcome.
C6_LatencyConstraint ==
    IsSessionResponse =>
        \A i \in DOMAIN wanted_caps :
            LET w == wanted_caps[i]
                m == MaxLatency(w)
            IN (InCatalog(w.name) /\ Alone(i) /\ Satisfies(w.version, "1.0.0")) =>
                 /\ m = None => TimesAccepted(w.name) = 1
                 /\ (m.t = "int" /\ 850 <= m.v) => TimesAccepted(w.name) = 1
                 /\ (m.t = "int" /\ 850 > m.v) =>
                       TimesRejectedFor(w.name, "latency_constraint_violation") = 1

Malformed(wanted) ==
    \/ ~WellFormedVersion(wanted.version)
    \/ MaxLatency(wanted).t \notin {"None", "int"}

\* C7: a wanted capability of the catalog with a malformed version
\* constraint or a max_latency_ms that is not a number is rejected, never
\* accepted, and the request is answered with a SessionResponse.
C7_MalformedIsRejected ==
    (response # NoResponse /\ response.kind # "HTTPException") =>
        \A i \in DOMAIN wanted_caps :
            LET w == wanted_caps[i]
            IN (InCatalog(w.name) /\ Malformed(w)) =>
                 /\ IsSessionResponse
                 /\ TimesRejected(w.name) >= 1
                 /\ Alone(i) => TimesAccepted(w.name) = 0

\* what the client sent for a session preference
Sent(field) ==
    IF request.session_preferences = Omitted
    THEN Omitted
    ELSE request.session_preferences[field]

\* C8: the negotiated transport is the first of the client's preferences
\* that the supported list holds, and "http-json" when there is none (or no
\* preference); "http-json" is in the supported list.  Preferences
\* grpc, http-json against the supported set http-json, nats give http-json.
C8_TransportSelection ==
    IsSessionResponse =>
        LET sent == Sent("transport")
            prefs == IF sent = Omitted THEN <<>> ELSE sent.v
            supported == {SupportedTransports[k] : k \in DOMAIN SupportedTransports}
            chosen == response.negotiated_session.transport
        IN /\ "http-json" \in supported
           /\ IF \E i \in DOMAIN prefs : prefs[i] \in supported
              THEN \E i \in DOMAIN prefs :
                      /\ prefs[i] = chosen
                      /\ prefs[i] \in supported
                      /\ \A j \in 1..(i - 1) : prefs[j] \notin supported
              ELSE chosen = "http-json"
           /\ SelectTransport(PyList(<<"grpc", "http-json">>), <<"http-json", "nats">>)
                = "http-json"

\* the first preference is not supported and the second is chosen
C8_Witness ==
    /\ IsSessionResponse
    /\ Sent("transport") = PyList(<<"ws", "nats">>)
    /\ response.negotiated_session.transport = "nats"

\* C9: the negotiated timeout is min(requested, 180) for every timeout the
\* request carries, 0 included, the default capped at 180 when it carries
\* none, and never above 180.
C9_Timeout ==
    IsSessionResponse =>
        LET sent == request.timeout_seconds
            agreed == response.negotiated_session.timeout_seconds
        IN /\ sent.t = "int" => agreed = Min(sent.v, 180)
           /\ sent.t # "int" => agreed = 180
           /\ agreed <= 180

\* C10: the negotiated retry_strategy and max_retries are the client's
\* values whenever the client sent them (0 and the empty string included),
\* and "exponential" and 3 only when it sent none.
C10_RetryPassThrough ==
    IsSessionResponse =>
        LET strategy == Sent("retry_strategy")
            retries == Sent("max_retries")
            agreed == response.negotiated_session
        IN /\ strategy.t = "str" => agreed.retry_strategy = strategy.v
           /\ strategy.t # "str" => agreed.retry_strategy = "exponential"
           /\ retries.t = "int" => agreed.max_retries = retries.v
           /\ retries.t # "int" => agreed.max_retries = 3

\* C11: when the agent id the handler holds is not among the participants
\* (an empty list included) the request ends in HTTPException 400 with no
\* _find_capability call, no token and no SessionResponse; the
\* HTTPException is raised in that case only.
C11_EligibilityError ==
    response # NoResponse =>
        LET participant == \E k \in DOMAIN request.participants :
                               request.participants[k] = config.agent_id
        IN /\ ~participant =>
                /\ response = [kind |-> "HTTPException", status_code |-> 400]
                /\ lookups = 0
           /\ response.kind = "HTTPException" => ~participant
           /\ (participant /\ response.kind = "SessionResponse") =>
                lookups = Len(request.wanted_capabilities)

\* a request naming other agents only, asking for a capability whose
\* negotiation would raise
C11_Witness ==
    /\ response # NoResponse
    /\ response.kind = "HTTPException"
    /\ request.participants # <<>>
    /\ Len(request.wanted_capabilities) = 1
    /\ InCatalog(request.wanted_capabilities[1].name)
    /\ MaxLatency(request.wanted_capabilities[1]) = PyStr("fast")
    /\ lookups = 0

\* the agent id the handler holds is among the request's participants
Admissible ==
    \E k \in DOMAIN request.participants : request.participants[k] = config.agent_id

\* C12: an admissible request with an empty wanted list is answered with
\* status "accepted", both capability lists empty, no error, and a session
\* token and a negotiated session.
C12_EmptyWantedAccepted ==
    (response # NoResponse /\ Admissible /\ request.wanted_capabilities = <<>>) =>
        /\ response.kind = "SessionResponse"
        /\ response.status = "accepted"
        /\ response.accepted_capabilities = <<>>
        /\ response.rejected_capabilities = <<>>
        /\ response.error = None
        /\ response.session_token # None
        /\ response.negotiated_session # None

C12_Witness ==
    /\ IsSessionResponse
    /\ request.wanted_capabilities = <<>>
    /\ REGISTERED_ENDPOINTS # <<>>
    /\ response.status = "accepted"
    /\ response.session_token = _generate_session_token("s1", 180)

\* the names looked up
ProbeNames == {NameA, NameBC, NameZZ, Chars(<<"d">>)}

\* the positions of the catalog whose descriptor answers to the name, by
\* its name or by its path without the outer "/" and with "_" for "/"
Answering(name, registry) ==
    {k \in DOMAIN registry :
        \/ registry[k].name = name
        \/ Chars(PathName(registry[k].path.v)) = name}

EarliestAnswering(name, registry) ==
    registry[CHOOSE k \in Answering(name, registry) :
                 \A j \in Answering(name, registry) : k <= j]

LookupIsEarliest ==
    /\ \A name \in ProbeNames :
         LET found == _find_capability(name, REGISTERED_ENDPOINTS)
         IN IF Answering(name, REGISTERED_ENDPOINTS) = {}
            THEN found = None
            ELSE found = EarliestAnswering(name, REGISTERED_ENDPOINTS)
    /\ IsSessionResponse =>
         \A k \in DOMAIN accepted_caps :
            accepted_caps[k].action_schema
                = EarliestAnswering(accepted_caps[k].name, REGISTERED_ENDPOINTS).path

LookupIsStable ==
    \A name \in ProbeNames :
        _find_capability(name, REGISTERED_ENDPOINTS) # None =>
            _find_capability(name, REGISTERED_ENDPOINTS')
                = _find_capability(name, REGISTERED_ENDPOINTS)

\* C13: after any registrations the lookup of a name returns the earliest
\* registered descriptor that answers to it by name or by path, and
\* not-found iff none does; a registration appends, and never changes the
\* result of a lookup that found a descriptor.
C13_Lookup ==
    /\ []LookupIsEarliest
    /\ [][LookupIsStable]_vars
    /\ [][\/ REGISTERED_ENDPOINTS' = REGISTERED_ENDPOINTS
          \/ /\ Len(REGISTERED_ENDPOINTS') = Len(REGISTERED_ENDPOINTS) + 1
             /\ SubSeq(REGISTERED_ENDPOINTS', 1, Len(REGISTERED_ENDPOINTS))
                  = REGISTERED_ENDPOINTS]_vars

\* two descriptors answer to the accepted name, the second registered by its
\* path ("/a") and the first by its explicit name; the first one's path is
\* the accepted capability's action_schema
C13_Witness ==
    /\ IsSessionResponse
    /\ Len(REGISTERED_ENDPOINTS) = 2
    /\ Answering(NameA, REGISTERED_ENDPOINTS) = {1, 2}
    /\ REGISTERED_ENDPOINTS[1].path = Chars(<<"/", "b", "/", "c", "/">>)
    /\ REGISTERED_ENDPOINTS[2].path = Chars(<<"/", "a">>)
    /\ \E k \in DOMAIN accepted_caps :
         /\ accepted_caps[k].name = NameA
         /\ accepted_caps[k].action_schema = REGISTERED_ENDPOINTS[1].path

\* C14: after any set_agent_config and reset_agent_config calls, before or
\* after register_session_endpoint, the agent id the handler checks against
\* the participants is the agent_id get_agent_config() returns when the
\* request is handled.
C14_ChecksCurrentAgentId ==
    response # NoResponse =>
        /\ config.agent_id = _agent_config.agent_id
        /\ response.kind = "HTTPException"
             <=> \A k \in DOMAIN request.participants :
                     request.participants[k] # _agent_config.agent_id

\* C15: the transport of negotiated_session is one of the agent's
\* configured supported_transports.
C15_TransportIsConfigured ==
    IsSessionResponse =>
        \E k \in DOMAIN _agent_config.supported_transports :
            _agent_config.supported_transports[k]
                = response.negotiated_session.transport

====
